---- MODULE Spec2Model ----
(***************************************************************************)
(* Geometric assembly validator of the furniture pipeline.                 *)
(*                                                                         *)
(*   ComponentValidator   (primitive_builder/agents/validator.py)          *)
(*   FurnitureGenerator._check_symmetry / _check_radial_arrangement        *)
(*                        (primitive_builder/full_agent.py)                *)
(*                                                                         *)
(* Lengths are fixed-point integers, one unit = 0.005 scene units, so the  *)
(* connection threshold 0.01 is 2 units and the chair-leg threshold 0.1 is *)
(* 20 units.  Heights are even numbers of units, so height/2 is exact.     *)
(***************************************************************************)
EXTENDS Integers, Sequences, FiniteSets, TLC

VARIABLES
    components,      \* the component list validate_and_fix is working on
    input,           \* the list as it was handed to validate_and_fix
    connection_map,  \* ordered mapping: sequence of <<name, targets>>
    pc,              \* position inside validate_and_fix
    positions,       \* positions map handed to the pattern checks
    result,          \* what the pattern check or the generation returned
    generator,       \* the generator class whose generate() is running
    classification,  \* what the classifier answered
    calls            \* the agents called so far: sequence of [fn, arg]

vars == <<components, input, connection_map, pc, positions, result,
          generator, classification, calls>>

\* the state of generate() around the validator and the pattern checks
pipeline == <<generator, classification, calls>>

(***************************************************************************)
(* Floating point: float('-inf') and what arithmetic makes of it.          *)
(***************************************************************************)
NegInf == -1000000
PosInf == 1000000
NaN == 2000000

IsFinite(a) == a # NegInf /\ a # PosInf /\ a # NaN

Neg(a) ==
    IF a = NaN THEN NaN
    ELSE IF a = NegInf THEN PosInf
    ELSE IF a = PosInf THEN NegInf
    ELSE 0 - a

Add(a, b) ==
    IF a = NaN \/ b = NaN THEN NaN
    ELSE IF (a = NegInf /\ b = PosInf) \/ (a = PosInf /\ b = NegInf) THEN NaN
    ELSE IF a = NegInf \/ b = NegInf THEN NegInf
    ELSE IF a = PosInf \/ b = PosInf THEN PosInf
    ELSE a + b

Sub(a, b) == Add(a, Neg(b))

\* max(a, b) of Python on floats without NaN
Max(a, b) == IF a = PosInf \/ b = PosInf THEN PosInf
             ELSE IF a = NegInf THEN b
             ELSE IF b = NegInf THEN a
             ELSE IF a >= b THEN a ELSE b

RECURSIVE SeqMin(_)
SeqMin(s) == IF Len(s) = 1 THEN s[1]
             ELSE LET m == SeqMin(Tail(s)) IN IF s[1] <= m THEN s[1] ELSE m

(***************************************************************************)
(* Names.  Python tests roles with substring checks; strings are atomic    *)
(* here, so each name of the vocabulary lists the keywords it contains,    *)
(* case-sensitively and after lower().                                     *)
(***************************************************************************)
Names == <<"Leg_1", "Seat", "Table_Top", "Backrest", "Desk_Top", "Leg_2", "Base", "Stand",
           "Seat_Base">>

Keywords(name) ==
    CASE name = "Seat"      -> {"Seat"}
      [] name = "Table_Top" -> {"Table_Top", "Top"}
      [] name = "Leg_1"     -> {"Leg"}
      [] name = "Leg_2"     -> {"Leg"}
      [] name = "Backrest"  -> {"Backrest"}
      [] name = "Desk_Top"  -> {"Top"}
      [] name = "Base"      -> {"Base"}
      [] name = "Stand"     -> {"Stand"}
      [] name = "Seat_Base" -> {"Seat", "Base"}
      [] name = "table_leg" -> {}
      [] OTHER              -> {}

LowerKeywords(name) ==
    CASE name = "Seat"      -> {"seat"}
      [] name = "Table_Top" -> {"table_top", "top"}
      [] name = "Leg_1"     -> {"leg"}
      [] name = "Leg_2"     -> {"leg"}
      [] name = "Backrest"  -> {"backrest"}
      [] name = "Desk_Top"  -> {"top"}
      [] name = "Base"      -> {"base"}
      [] name = "Stand"     -> {"stand"}
      [] name = "Seat_Base" -> {"seat", "base"}
      [] name = "table_leg" -> {"leg"}
      [] OTHER              -> {}

\* kw in name
Has(name, kw) == kw \in Keywords(name)
\* kw in name.lower()
HasLower(name, kw) == kw \in LowerKeywords(name)

(***************************************************************************)
(* Components.  A component is [name, operations]; operations is empty or  *)
(* holds the one operation the validator looks at (operations[0]).         *)
(***************************************************************************)
Sphere == "mesh.build_sphere_mesh"
Cylinder == "mesh.build_cylinder_mesh"
Box == "mesh.build_box_mesh"
Bezier == "draw.bezier_curve"
Cone == "mesh.build_cone_mesh"

NoRotation == <<0, 0, 0>>

Op(kind, height, radius, anchors, loc, rot, sc) ==
    [operation |-> kind,
     params    |-> [height |-> height, radius |-> radius, anchors |-> anchors],
     transform |-> [location |-> loc, rotation |-> rot, scale |-> sc]]

Solid(kind, height, x, z) == Op(kind, height, height \div 2, <<>>, <<x, 0, z>>, NoRotation, <<1, 1, 1>>)

\* a curve standing at x, reaching from z - height/2 up to z + height/2
Curve(height, x, z) ==
    Op(Bezier, 0, 0, << <<x, 0, z - height \div 2>>, <<x, 0, z + height \div 2>> >>,
       <<0, 0, 0>>, NoRotation, <<1, 1, 1>>)

HasOp(c) == Len(c.operations) > 0
Op0(c) == c.operations[1]
Kind(c) == Op0(c).operation
Location(c) == Op0(c).transform.location

SetLocation(c, loc) ==
    [c EXCEPT !.operations[1].transform.location = loc]

SetLocationZ(c, z) ==
    [c EXCEPT !.operations[1].transform.location[3] = z]

SetAnchors(c, a) ==
    [c EXCEPT !.operations[1].params.anchors = a]

ShiftAnchors(anchors, dz) ==
    [i \in 1..Len(anchors) |-> <<anchors[i][1], anchors[i][2], Add(anchors[i][3], dz)>>]

\* next(i for i, c in enumerate(list) if c["name"] == name), 0 when there is none
IndexOf(list, name) ==
    IF \E i \in 1..Len(list) : list[i].name = name
    THEN CHOOSE i \in 1..Len(list) :
            /\ list[i].name = name
            /\ \A j \in 1..(i - 1) : list[j].name # name
    ELSE 0

\* next(c for c in list if kw in c["name"]) as an index, 0 for None
FirstWith(list, kw) ==
    IF \E i \in 1..Len(list) : Has(list[i].name, kw)
    THEN CHOOSE i \in 1..Len(list) :
            /\ Has(list[i].name, kw)
            /\ \A j \in 1..(i - 1) : ~Has(list[j].name, kw)
    ELSE 0

(***************************************************************************)
(* Shape metrics.                                                          *)
(***************************************************************************)
\* min(point[2] for point in anchors)
LowestAnchor(anchors) == SeqMin([i \in 1..Len(anchors) |-> anchors[i][3]])

\* _get_lowest_point raises (IndexError) when the component has no operation
LowestPointRaises(c) == ~HasOp(c)

get_lowest_point(c) ==
    LET operation == Kind(c)
        params == Op0(c).params
        location == Location(c)
    IN  IF operation = Bezier THEN LowestAnchor(params.anchors)
        ELSE IF operation = Cylinder THEN Sub(location[3], params.height \div 2)
        ELSE IF operation = Box THEN Sub(location[3], params.height \div 2)
        ELSE IF operation = Sphere THEN Sub(location[3], params.radius)
        ELSE location[3]

Anchor(point, priority) == [point |-> point, priority |-> priority]

\* the three anchors of a sphere, cylinder or box whose half extent is e
TopBottomCenter(location, e) ==
    [k \in {"top", "bottom", "center"} |->
        IF k = "top" THEN Anchor(<<location[1], location[2], Add(location[3], e)>>, 1)
        ELSE IF k = "bottom" THEN Anchor(<<location[1], location[2], Sub(location[3], e)>>, 1)
        ELSE Anchor(location, 0)]

CenterOnly(location) == [k \in {"center"} |-> Anchor(location, 0)]

get_connection_point(c) ==
    IF ~HasOp(c) THEN CenterOnly(<<0, 0, 0>>)
    ELSE
    LET operation == Op0(c)
        location == operation.transform.location
        scale == operation.transform.scale
    IN  IF operation.operation = Sphere
            THEN TopBottomCenter(location, operation.params.radius * scale[3])
        ELSE IF operation.operation = Cylinder
            THEN TopBottomCenter(location, (operation.params.height * scale[3]) \div 2)
        ELSE IF operation.operation = Box
            THEN TopBottomCenter(location, (operation.params.height * scale[3]) \div 2)
        ELSE CenterOnly(location)

\* dict order of the anchors, which max(..., key=priority) resolves ties by
AnchorOrder == <<"top", "bottom", "center">>

\* max(points.values(), key=lambda x: x['priority'])['point']
BestAnchor(points) ==
    LET present == {i \in 1..3 : AnchorOrder[i] \in DOMAIN points}
        best == CHOOSE i \in present :
                    \A j \in present :
                        \/ points[AnchorOrder[j]].priority < points[AnchorOrder[i]].priority
                        \/ (points[AnchorOrder[j]].priority = points[AnchorOrder[i]].priority /\ i <= j)
    IN  points[AnchorOrder[best]].point

(***************************************************************************)
(* _ensure_ground_contact                                                  *)
(***************************************************************************)
ground_level == 0

IsBase(c) == HasLower(c.name, "frame") \/ HasLower(c.name, "base") \/ HasLower(c.name, "leg")

BaseIndices(list) == {i \in 1..Len(list) : IsBase(list[i])}

\* as GroundAdjustment, but measuring the first base component only
GroundAdjustmentFirst(list) ==
    LET B == BaseIndices(list)
        f == CHOOSE i \in B : \A j \in B : i <= j
    IN  get_lowest_point(list[f]) - ground_level

\* min(base_lowest_points) - ground_level
GroundAdjustment(list) ==
    LET B == BaseIndices(list)
        m == CHOOSE i \in B : \A j \in B : get_lowest_point(list[i]) <= get_lowest_point(list[j])
    IN  get_lowest_point(list[m]) - ground_level

GroundRaises(list) == \E i \in BaseIndices(list) : LowestPointRaises(list[i])

\* one component after the shift by adj; isBase tells which loop handles it
Grounded(c, isBase, adj) ==
    IF ~HasOp(c) THEN c
    ELSE IF isBase /\ Kind(c) = Bezier
        THEN SetAnchors(c, ShiftAnchors(Op0(c).params.anchors, Neg(adj)))
    ELSE SetLocationZ(c, Sub(Location(c)[3], adj))

ensure_ground_contact(list) ==
    IF BaseIndices(list) = {} THEN list
    ELSE LET adj == GroundAdjustment(list)
         IN  [i \in 1..Len(list) |-> Grounded(list[i], IsBase(list[i]), adj)]

(***************************************************************************)
(* _validate_connections.  Each pass yields [list, raised]: the list as    *)
(* mutated so far and whether an exception left the pass.                  *)
(***************************************************************************)
Ok(list) == [list |-> list, raised |-> FALSE]
Raise(list) == [list |-> list, raised |-> TRUE]

\* as Put, but writing to the head of the list
PutFirst(list, c) == [list EXCEPT ![1] = c]

\* updated_components[idx] = c, idx being the first index that carries c's name
Put(list, c) == [list EXCEPT ![IndexOf(list, c.name)] = c]

\* [c for c in updated_components if "Leg" in c["name"]], as indices in list order
LegIndices(list) == {i \in 1..Len(list) : Has(list[i].name, "Leg")}

\* horizontal_dist > 0.1
HorizontalThreshold == 20

NotUnder(leg_top, target_bottom) ==
    (leg_top[1] - target_bottom[1]) * (leg_top[1] - target_bottom[1])
      + (leg_top[2] - target_bottom[2]) * (leg_top[2] - target_bottom[2])
      > HorizontalThreshold * HorizontalThreshold

\* the leg moved horizontally to the seat
MoveLegTo(leg, target_bottom) ==
    SetLocation(leg, <<target_bottom[1], target_bottom[2], Location(leg)[3]>>)

\* FIRST, the loop over the legs from index i on
RECURSIVE AdjustLegsFrom(_, _, _)
AdjustLegsFrom(list, i, target_bottom) ==
    IF i > Len(list) THEN Ok(list)
    ELSE IF ~Has(list[i].name, "Leg") THEN AdjustLegsFrom(list, i + 1, target_bottom)
    ELSE LET leg == list[i]
             leg_points == get_connection_point(leg)
         IN  IF "top" \notin DOMAIN leg_points THEN Raise(list)
             ELSE IF NotUnder(leg_points["top"].point, target_bottom)
                 THEN AdjustLegsFrom(Put(list, MoveLegTo(leg, target_bottom)), i + 1, target_bottom)
             ELSE AdjustLegsFrom(list, i + 1, target_bottom)

\* FIRST: legs of a chair are moved under the seat
adjust_legs(list) ==
    LET seat == FirstWith(list, "Seat")
    IN  IF seat = 0 \/ LegIndices(list) = {} THEN Ok(list)
        ELSE LET target_points == get_connection_point(list[seat])
             IN  IF "bottom" \notin DOMAIN target_points THEN Raise(list)
                 ELSE AdjustLegsFrom(list, 1, target_points["bottom"].point)

\* SECOND: some leg has no "top" anchor (KeyError)
HighestLegRaises(list) ==
    \E i \in LegIndices(list) : "top" \notin DOMAIN get_connection_point(list[i])

RECURSIVE HighestLegFrom(_, _, _)
HighestLegFrom(list, i, acc) ==
    IF i > Len(list) THEN acc
    ELSE IF ~Has(list[i].name, "Leg") THEN HighestLegFrom(list, i + 1, acc)
    ELSE HighestLegFrom(list, i + 1, Max(acc, get_connection_point(list[i])["top"].point[3]))

RECURSIVE LowestLegFrom(_, _, _)
LowestLegFrom(list, i, acc) ==
    IF i > Len(list) THEN acc
    ELSE IF ~Has(list[i].name, "Leg") THEN LowestLegFrom(list, i + 1, acc)
    ELSE LET t == get_connection_point(list[i])["top"].point[3]
         IN  LowestLegFrom(list, i + 1, IF acc = PosInf \/ t < acc THEN t ELSE acc)

\* as highest_leg_z, but taking the minimum of the leg tops
lowest_leg_z(list) == LowestLegFrom(list, 1, PosInf)

\* SECOND: highest_leg_z, starting from float('-inf')
highest_leg_z(list) == HighestLegFrom(list, 1, NegInf)

\* as SnapSurfaceTo, but putting the surface's centre, not its bottom, at target_z
SnapSurfaceCentre(surface, target_z) == SetLocationZ(surface, target_z)

\* the surface moved so that its bottom anchor is at target_z
SnapSurfaceTo(surface, target_z) ==
    LET bottom == get_connection_point(surface)["bottom"].point
        z_offset == Sub(target_z, bottom[3])
    IN  SetLocationZ(surface, Add(Location(surface)[3], z_offset))

\* index of the surface THIRD moves: the seat, else the table top, else 0
SurfaceIndex(list) ==
    IF FirstWith(list, "Seat") # 0 THEN FirstWith(list, "Seat")
    ELSE FirstWith(list, "Table_Top")

\* SECOND and THIRD: the seat, or else the table top, is put on the highest leg
snap_surface(list) ==
    IF HighestLegRaises(list) THEN Raise(list)
    ELSE LET s == SurfaceIndex(list)
         IN  IF s = 0 THEN Ok(list)
             ELSE IF "bottom" \notin DOMAIN get_connection_point(list[s]) THEN Raise(list)
             ELSE Ok(Put(list, SnapSurfaceTo(list[s], highest_leg_z(list))))

\* connection threshold 0.01
Threshold == 2

\* np.linalg.norm(point1 - point2) < threshold
are_points_connected(point1, point2) ==
    LET dx == Sub(point1[1], point2[1])
        dy == Sub(point1[2], point2[2])
        dz == Sub(point1[3], point2[3])
    IN  /\ IsFinite(dx) /\ IsFinite(dy) /\ IsFinite(dz)
        /\ dx * dx + dy * dy + dz * dz < Threshold * Threshold

snap_to_point(component, from_point, to_point) ==
    LET z_offset == Sub(to_point[3], from_point[3])
    IN  IF ~HasOp(component) THEN component
        ELSE IF Has(component.name, "Leg") THEN
            IF Kind(component) = Bezier
                THEN SetAnchors(component, ShiftAnchors(Op0(component).params.anchors, z_offset))
            ELSE SetLocationZ(component, Add(Location(component)[3], z_offset))
        ELSE IF Has(component.name, "Seat") \/ Has(component.name, "Top")
            THEN SetLocationZ(component, Add(Location(component)[3], z_offset))
        ELSE component

\* the anchors a declared pair is compared at: [raised, comp_point, target_point]
ChosenPoints(comp_name, comp_points, target_points) ==
    IF Has(comp_name, "Backrest")
    THEN IF "bottom" \in DOMAIN comp_points /\ "top" \in DOMAIN target_points
         THEN [raised |-> FALSE, comp_point |-> comp_points["bottom"].point,
               target_point |-> target_points["top"].point]
         ELSE [raised |-> TRUE, comp_point |-> <<0, 0, 0>>, target_point |-> <<0, 0, 0>>]
    ELSE [raised |-> FALSE, comp_point |-> BestAnchor(comp_points),
          target_point |-> BestAnchor(target_points)]

\* FOURTH, the loop over the targets of one component, from target k on.
\* comp_points was computed once, before the loop.
RECURSIVE SnapTargetsFrom(_, _, _, _, _)
SnapTargetsFrom(list, comp_idx, comp_points, targets, k) ==
    IF k > Len(targets) THEN Ok(list)
    ELSE LET t == IndexOf(list, targets[k])
         IN  IF t = 0 THEN SnapTargetsFrom(list, comp_idx, comp_points, targets, k + 1)
             ELSE LET comp == list[comp_idx]
                      chosen == ChosenPoints(comp.name, comp_points, get_connection_point(list[t]))
                  IN  IF chosen.raised THEN Raise(list)
                      ELSE IF are_points_connected(chosen.comp_point, chosen.target_point)
                          THEN SnapTargetsFrom(list, comp_idx, comp_points, targets, k + 1)
                      ELSE SnapTargetsFrom(
                              [list EXCEPT ![comp_idx] =
                                  snap_to_point(comp, chosen.comp_point, chosen.target_point)],
                              comp_idx, comp_points, targets, k + 1)

\* FOURTH skips legs, seats and table tops
Handled(comp_name) ==
    Has(comp_name, "Leg") \/ Has(comp_name, "Seat") \/ Has(comp_name, "Table_Top")

\* FOURTH, the loop over connection_map.items() from entry e on
RECURSIVE SnapEntriesFrom(_, _, _)
SnapEntriesFrom(list, map, e) ==
    IF e > Len(map) THEN Ok(list)
    ELSE LET comp_name == map[e][1]
             comp_idx == IndexOf(list, comp_name)
         IN  IF Handled(comp_name) \/ comp_idx = 0 THEN SnapEntriesFrom(list, map, e + 1)
             ELSE LET r == SnapTargetsFrom(list, comp_idx, get_connection_point(list[comp_idx]),
                                           map[e][2], 1)
                  IN  IF r.raised THEN r ELSE SnapEntriesFrom(r.list, map, e + 1)

\* the value has .items(): a dict is a sequence of <<key, value>> entries,
\* a list a sequence of <<item>> entries
IsDict(v) == \A e \in 1..Len(v) : Len(v[e]) = 2

\* FOURTH: the remaining declared connections; connection_map.items()
\* raises (AttributeError) on a value that is no dict
snap_connections(list, map) ==
    IF ~IsDict(map) THEN Raise(list) ELSE SnapEntriesFrom(list, map, 1)

(***************************************************************************)
(* _get_connection_map / _get_default_connections.  The map is an ordered  *)
(* dict: a sequence of <<name, targets>> entries.                          *)
(***************************************************************************)
RECURSIVE NamesWith(_, _, _)
\* [c["name"] for c in components if kw in c["name"]], from index i on
NamesWith(list, kw, i) ==
    IF i > Len(list) THEN <<>>
    ELSE IF Has(list[i].name, kw) THEN <<list[i].name>> \o NamesWith(list, kw, i + 1)
    ELSE NamesWith(list, kw, i + 1)

get_default_connections(list) ==
    LET top == FirstWith(list, "Top")
        leg_names == NamesWith(list, "Leg", 1)
    IN  IF top # 0 /\ Len(leg_names) > 0
        THEN << <<list[top].name, leg_names>> >>
               \o [i \in 1..Len(leg_names) |-> <<leg_names[i], <<list[top].name>> >>]
        ELSE <<>>

\* maps the language model may answer with
LLMMaps ==
    { << <<"Backrest", <<"Seat">> >>, <<"Seat", <<"Leg_1", "Leg_2">> >> >>,
      << <<"Desk_Top", <<"Leg_1", "Leg_2">> >> >> }

(***************************************************************************)
(* Inputs: component lists of at most MaxComponents components with        *)
(* distinct names, each drawn from the shapes its role is generated with.  *)
(***************************************************************************)
MaxComponents == 3

LegHeights == {140, 148}
LegXs == {0, 40}
LegZs == {70, 74}

LegShapes ==
    {<<Solid(Cylinder, h, x, z)>> : h \in LegHeights, x \in LegXs, z \in LegZs}
    \cup {<<Curve(h, 0, 74)>> : h \in LegHeights}
    \cup {<<>>}

Shapes(name) ==
    CASE name = "Seat"      -> {<<Solid(Box, 6, 0, z)>> : z \in {143, 151, 160}}
                               \cup {<<Solid(Cone, 6, 0, 151)>>}
      [] name = "Table_Top" -> {<<Solid(Box, 6, 0, z)>> : z \in {150, 151}}
      [] name = "Leg_1"     -> LegShapes
      [] name = "Leg_2"     -> LegShapes
      [] name = "Backrest"  -> {<<Solid(Box, 40, 0, z)>> : z \in {174, 204}}
                               \cup {<<Curve(40, 0, 190)>>}
      [] name = "Desk_Top"  -> {<<Solid(Box, 6, 0, z)>> : z \in {139, 145}}
      [] name = "Base"      -> {<<Solid(Box, 10, 0, 5)>>, <<Curve(10, 0, 9)>>}
      [] name = "Stand"     -> {<<Solid(Cylinder, 20, 0, 10)>>,
                                <<Op(Sphere, 0, 10, <<>>, <<0, 0, 10>>, NoRotation, <<1, 1, 2>>)>>}
      [] name = "Seat_Base" -> {<<Solid(Box, 10, 0, 5)>>}
      [] name = "table_leg" -> {<<Solid(Cylinder, 140, 0, z)>> : z \in {70, 84}}

\* the names of a list, as increasing positions in Names
NameLists ==
    {s \in UNION {[1..n -> 1..Len(Names)] : n \in 1..MaxComponents} :
        \A i \in 1..(Len(s) - 1) : s[i] < s[i + 1]}

RECURSIVE ListsNamed(_, _)
\* the lists whose names are Names[s[i]], Names[s[i+1]], ...
ListsNamed(s, i) ==
    IF i > Len(s) THEN {<<>>}
    ELSE {<<[name |-> Names[s[i]], operations |-> o]>> \o rest :
            o \in Shapes(Names[s[i]]), rest \in ListsNamed(s, i + 1)}

ComponentLists == UNION {ListsNamed(s, 1) : s \in NameLists}

NoResult == [check |-> "none", value |-> FALSE]

Init ==
    /\ components \in ComponentLists
    /\ input = components
    /\ connection_map = <<>>
    /\ pc = "map"
    /\ positions = <<>>
    /\ result = NoResult
    /\ generator = "ComponentValidator"
    /\ classification = ""
    /\ calls = <<>>

(***************************************************************************)
(* validate_and_fix, pass by pass.                                         *)
(***************************************************************************)
\* 1. what eval makes of the answer of the language model, one of answers,
\*    or the default map when the call or the parse of its answer fails
GetConnectionMapFrom(answers) ==
    /\ pc = "map"
    /\ connection_map' \in answers \cup {get_default_connections(components)}
    /\ pc' = "ground"
    /\ UNCHANGED <<components, input, positions, result, pipeline>>

GetConnectionMap == GetConnectionMapFrom(LLMMaps)

\* as EnsureGroundContact, but with the leg adjustment and the support
\* alignment of _validate_connections run ahead of the ground-contact pass
AlignThenEnsureGroundContact ==
    /\ pc = "ground"
    /\ IF GroundRaises(components)
       THEN pc' = "raised" /\ UNCHANGED components
       ELSE LET r == adjust_legs(components)
                s == IF r.raised THEN r ELSE snap_surface(r.list)
            IN  IF s.raised
                THEN pc' = "raised" /\ UNCHANGED components
                ELSE pc' = "adjust" /\ components' = ensure_ground_contact(s.list)
    /\ UNCHANGED <<input, connection_map, positions, result, pipeline>>

\* 2. _ensure_ground_contact
EnsureGroundContact ==
    /\ pc = "ground"
    /\ IF GroundRaises(components)
       THEN pc' = "raised" /\ UNCHANGED components
       ELSE pc' = "adjust" /\ components' = ensure_ground_contact(components)
    /\ UNCHANGED <<input, connection_map, positions, result, pipeline>>

\* 3. _validate_connections, FIRST
AdjustLegs ==
    /\ pc = "adjust"
    /\ LET r == adjust_legs(components)
       IN  /\ components' = r.list
           /\ pc' = IF r.raised THEN "raised" ELSE "align"
    /\ UNCHANGED <<input, connection_map, positions, result, pipeline>>

\* 3. _validate_connections, SECOND and THIRD
SnapSurface ==
    /\ pc = "align"
    /\ LET r == snap_surface(components)
       IN  /\ components' = r.list
           /\ pc' = IF r.raised THEN "raised" ELSE "snap"
    /\ UNCHANGED <<input, connection_map, positions, result, pipeline>>

\* 3. _validate_connections, FOURTH, and the return
SnapConnections ==
    /\ pc = "snap"
    /\ LET r == snap_connections(components, connection_map)
       IN  /\ components' = r.list
           /\ pc' = IF r.raised THEN "raised" ELSE "done"
    /\ UNCHANGED <<input, connection_map, positions, result, pipeline>>

Next ==
    \/ GetConnectionMap
    \/ EnsureGroundContact
    \/ AdjustLegs
    \/ SnapSurface
    \/ SnapConnections

Spec == Init /\ [][Next]_vars

(***************************************************************************)
(* validate_and_fix on lists whose names are not in the case the prompts   *)
(* show, and with answers of the language model that eval accepts but     *)
(* that are no dict.                                                       *)
(***************************************************************************)
WideNames == <<"table_leg", "Leg_1", "Seat", "Table_Top", "Desk_Top", "Backrest">>

WideNameLists ==
    {s \in UNION {[1..n -> 1..Len(WideNames)] : n \in 1..MaxComponents} :
        \A i \in 1..(Len(s) - 1) : s[i] < s[i + 1]}

RECURSIVE WideListsNamed(_, _)
WideListsNamed(s, i) ==
    IF i > Len(s) THEN {<<>>}
    ELSE {<<[name |-> WideNames[s[i]], operations |-> o]>> \o rest :
            o \in Shapes(WideNames[s[i]]), rest \in WideListsNamed(s, i + 1)}

WideLists == UNION {WideListsNamed(s, 1) : s \in WideNameLists}

\* answers that are Python lists of names
ListAnswers == { << <<"Table_Top">>, <<"table_leg">> >>, << <<"Desk_Top">>, <<"Leg_1">> >> }

WideInit ==
    /\ components \in WideLists
    /\ input = components
    /\ connection_map = <<>>
    /\ pc = "map"
    /\ positions = <<>>
    /\ result = NoResult
    /\ generator = "ComponentValidator"
    /\ classification = ""
    /\ calls = <<>>

GetAnyConnectionMap == GetConnectionMapFrom(LLMMaps \cup ListAnswers)

WideNext ==
    \/ GetAnyConnectionMap
    \/ EnsureGroundContact
    \/ AdjustLegs
    \/ SnapSurface
    \/ SnapConnections

WideSpec == WideInit /\ [][WideNext]_vars

(***************************************************************************)
(* Properties of validate_and_fix.                                         *)
(***************************************************************************)
Returned == pc = "done"
AfterGround == pc = "adjust"
AfterAlignment == pc \in {"snap", "done"}

TopZ(c) == get_connection_point(c)["top"].point[3]
BottomZ(c) == get_connection_point(c)["bottom"].point[3]

C2_SurfaceOnHighestLeg ==
    (AfterAlignment /\ SurfaceIndex(components) # 0 /\ LegIndices(components) # {}) =>
        LET bottom == BottomZ(components[SurfaceIndex(components)])
        IN  /\ \A i \in LegIndices(components) : TopZ(components[i]) <= bottom
            /\ \E i \in LegIndices(components) : TopZ(components[i]) = bottom

\* a run returned with the surface on legs whose tops differ, after the surface was moved
C2_Witness ==
    /\ Returned
    /\ SurfaceIndex(components) # 0
    /\ \E i, j \in LegIndices(components) : TopZ(components[i]) < TopZ(components[j])
    /\ components[SurfaceIndex(components)] # input[SurfaceIndex(components)]

\* the two points are at most the connection threshold apart
WithinTolerance(p, q) ==
    /\ IsFinite(p[3]) /\ IsFinite(q[3])
    /\ (p[1] - q[1]) * (p[1] - q[1]) + (p[2] - q[2]) * (p[2] - q[2])
         + (p[3] - q[3]) * (p[3] - q[3]) <= Threshold * Threshold

\* the declared pairs of map whose two components are both in list
DeclaredPairs(list, map) ==
    {pr \in UNION {{<<map[e][1], map[e][2][k]>> : k \in 1..Len(map[e][2])} : e \in 1..Len(map)} :
        IndexOf(list, pr[1]) # 0 /\ IndexOf(list, pr[2]) # 0}

\* the chosen anchors of the declared pair <<a, b>> are within the tolerance
PairConnected(list, a, b) ==
    LET chosen == ChosenPoints(a, get_connection_point(list[IndexOf(list, a)]),
                               get_connection_point(list[IndexOf(list, b)]))
    IN  ~chosen.raised /\ WithinTolerance(chosen.comp_point, chosen.target_point)

\* C3: when _validate_connections has returned, every declared pair whose
\* components both exist has its chosen anchor points within the tolerance.
C3_DeclaredPairsConnected ==
    Returned => \A pr \in DeclaredPairs(components, connection_map) :
                    PairConnected(components, pr[1], pr[2])

\* the list satisfies the ground-contact, support-alignment and
\* declared-connection invariants
GroundInvariant(list) ==
    BaseIndices(list) # {} =>
        /\ \A i \in BaseIndices(list) : HasOp(list[i]) /\ get_lowest_point(list[i]) >= 0
        /\ \E i \in BaseIndices(list) : get_lowest_point(list[i]) = 0

SupportInvariant(list) ==
    (SurfaceIndex(list) # 0 /\ LegIndices(list) # {}) =>
        /\ "bottom" \in DOMAIN get_connection_point(list[SurfaceIndex(list)])
        /\ \A i \in LegIndices(list) :
              /\ "top" \in DOMAIN get_connection_point(list[i])
              /\ TopZ(list[i]) <= BottomZ(list[SurfaceIndex(list)])
        /\ \E i \in LegIndices(list) : TopZ(list[i]) = BottomZ(list[SurfaceIndex(list)])

ConnectionInvariant(list, map) ==
    \A pr \in DeclaredPairs(list, map) : PairConnected(list, pr[1], pr[2])

Valid(list, map) ==
    GroundInvariant(list) /\ SupportInvariant(list) /\ ConnectionInvariant(list, map)

\* C4: a run on a list that already satisfies the three invariants returns
\* the list as it was: every location, anchor and parameter unchanged.
C4_Idempotent ==
    (Returned /\ Valid(input, connection_map)) => components = input

\* C5: validate_and_fix never ends in an unhandled exception.
C5_NeverRaises == pc # "raised"

\* extent of the surface above and below its location
HalfHeight(c) ==
    IF Kind(c) = Sphere THEN Op0(c).params.radius * Op0(c).transform.scale[3]
    ELSE (Op0(c).params.height * Op0(c).transform.scale[3]) \div 2

\* a surface on at least two legs whose height parameters differ
OnUnevenLegs(list) ==
    /\ SurfaceIndex(list) # 0
    /\ \E i, j \in LegIndices(list) :
          /\ HasOp(list[i]) /\ HasOp(list[j])
          /\ Op0(list[i]).params.height # Op0(list[j]).params.height

LegsKept(before, after) ==
    \A i \in LegIndices(before) :
        HasOp(before[i]) =>
            /\ Op0(after[i]).params.height = Op0(before[i]).params.height
            /\ Op0(after[i]).params.anchors = Op0(before[i]).params.anchors
            /\ Location(after[i])[3] = Location(before[i])[3]
            /\ Op0(after[i]).transform.rotation = Op0(before[i]).transform.rotation

\* the surface of the list sits with its location half its height above the highest leg top
SurfaceFlush(list) ==
    LET surface == list[SurfaceIndex(list)]
    IN  /\ \A i \in LegIndices(list) : TopZ(list[i]) + HalfHeight(surface) <= Location(surface)[3]
        /\ \E i \in LegIndices(list) : TopZ(list[i]) + HalfHeight(surface) = Location(surface)[3]

BackrestDeclared(list, map) ==
    {pr \in DeclaredPairs(list, map) : Has(pr[1], "Backrest") /\ Has(pr[2], "Seat")}

\* C7: a backrest declared connected to a seat, starting apart from it, is
\* within the tolerance of the seat's top anchor after the snapping step,
\* and the snapping step leaves the seat's location as it was.
C7_BackrestSnapped ==
    [][(pc = "snap" /\ pc' = "done") =>
          \A pr \in BackrestDeclared(components, connection_map) :
              ~PairConnected(components, pr[1], pr[2]) =>
                  /\ PairConnected(components', pr[1], pr[2])
                  /\ Location(components'[IndexOf(components, pr[2])])
                        = Location(components[IndexOf(components, pr[2])])]_vars

\* C10: a returning run keeps the length of the list and the name at every index.
C10_SameNames ==
    Returned =>
        /\ Len(components) = Len(input)
        /\ \A i \in 1..Len(input) : components[i].name = input[i].name

\* a run returned after changing components of a list of three
C10_Witness ==
    /\ Returned
    /\ Len(input) >= 3
    /\ \E i, j \in 1..Len(input) : i # j /\ components[i] # input[i] /\ components[j] # input[j]

\* C11: the ground-contact pass completes before any leg adjustment, support
\* alignment or connection snapping is made, and is not run again after them:
\* up to the ground-contact pass the list is as it was handed in, the pass
\* leaves exactly the grounded input, and from then on control only moves
\* forward through the steps of _validate_connections.
C11_GroundPassFirst ==
    [][/\ (pc \in {"map", "ground"} => components = input)
       /\ (pc = "ground" /\ pc' = "adjust") => components' = ensure_ground_contact(input)
       /\ (pc = "adjust") => pc' \in {"align", "raised"}
       /\ (pc = "align") => pc' \in {"snap", "raised"}
       /\ (pc = "snap") => pc' \in {"done", "raised"}]_vars

\* the ground-contact pass shifted the list and the alignment then changed it again
C11_Witness ==
    /\ pc = "snap"
    /\ ensure_ground_contact(input) # input
    /\ components # ensure_ground_contact(input)

\* C13: when the list holds a surface (seat, or else table top) but no leg,
\* the alignment step raises no fault and leaves the location of that
\* surface as it was.
C13_NoSupportsSkipped ==
    [][(pc = "align" /\ SurfaceIndex(components) # 0 /\ LegIndices(components) = {}) =>
          /\ pc' = "snap"
          /\ Location(components'[SurfaceIndex(components)])
                = Location(components[SurfaceIndex(components)])]_vars

\* the components of the list without a first operation
Empty(list) == {i \in 1..Len(list) : ~HasOp(list[i])}

\* C14: a component whose operations list is empty is skipped by the
\* ground-contact pass and by the alignment steps, whatever its name: the
\* step raises no fault, so the other components are still validated, and it
\* leaves the component as it was.
C14_EmptySkipped ==
    [][(pc \in {"ground", "adjust", "align"} /\ Empty(components) # {}) =>
          /\ pc' # "raised"
          /\ \A i \in Empty(components) : components'[i] = components[i]]_vars

\* the first operation of c is of a kind _get_connection_point has no case for
Unrecognised(c) == HasOp(c) /\ Kind(c) \notin {Sphere, Cylinder, Box, Bezier}

\* every component of the list is a solid, and one of them of an unrecognised kind
SolidsWithUnrecognised(list) ==
    /\ \A i \in 1..Len(list) : HasOp(list[i]) /\ Kind(list[i]) # Bezier
    /\ \E i \in 1..Len(list) : Unrecognised(list[i])

\* C15: a component whose first operation is of an unrecognised kind gets
\* exactly one anchor, "center" at the operation's location with priority 0,
\* and a list holding such a component is validated without a fault.
C15_UnrecognisedDegrades ==
    SolidsWithUnrecognised(input) =>
        /\ \A i \in 1..Len(components) :
              Unrecognised(components[i]) =>
                  /\ DOMAIN get_connection_point(components[i]) = {"center"}
                  /\ get_connection_point(components[i])["center"]
                        = Anchor(Location(components[i]), 0)
        /\ pc # "raised"

\* C18: when validate_and_fix returns a list with ground-contact components,
\* the lowest point among them is still at z = 0: none lies lower and one
\* lies exactly there, no later pass having moved them vertically.  Stated
\* for the lists that hold a leg; a surface without legs is C13's case.
C18_GroundContactKept ==
    (Returned /\ BaseIndices(components) # {} /\ LegIndices(components) # {}) =>
        /\ \A i \in BaseIndices(components) : get_lowest_point(components[i]) >= 0
        /\ \E i \in BaseIndices(components) : get_lowest_point(components[i]) = 0

\* c after a rigid vertical shift by adj: the location z of a solid and
\* every anchor z of a curve are lower by adj
ShiftedBy(before, after, adj) ==
    IF Kind(before) = Bezier
    THEN \A k \in 1..Len(Op0(before).params.anchors) :
            Op0(after).params.anchors[k][3] = Op0(before).params.anchors[k][3] - adj
    ELSE Location(after)[3] = Location(before)[3] - adj

\* C19: the ground-contact pass is a rigid vertical shift: it lowers every
\* component by the same ground_adjustment, curves by their anchors whether
\* ground-contact or not, so the difference between the lowest points of any
\* two components is the same before and after the pass.
C19_RigidShift ==
    [][(pc = "ground" /\ pc' = "adjust" /\ BaseIndices(components) # {}) =>
          /\ \A i \in 1..Len(components) :
                ShiftedBy(components[i], components'[i], GroundAdjustment(components))
          /\ \A i, j \in 1..Len(components) :
                get_lowest_point(components'[i]) - get_lowest_point(components'[j])
                    = get_lowest_point(components[i]) - get_lowest_point(components[j])]_vars

\* the surfaces the alignment looks for: seats and table tops
SurfaceIndices(list) ==
    {i \in 1..Len(list) : Has(list[i].name, "Seat") \/ Has(list[i].name, "Table_Top")}

\* C20: support alignment is applied to every supported surface of the list:
\* right after the alignment step on a list with legs and more than one
\* surface, for example a seat and a table top, each surface has its bottom
\* z at the maximum top z of the legs.
C20_EverySurfaceAligned ==
    (pc = "snap" /\ LegIndices(components) # {} /\ Cardinality(SurfaceIndices(components)) > 1) =>
        \A s \in SurfaceIndices(components) :
            /\ "bottom" \in DOMAIN get_connection_point(components[s])
            /\ BottomZ(components[s]) = highest_leg_z(components)

\* the entries of the map the snapping step works on: the component is in
\* the list and is no leg, seat or table top
SnappedEntries(list, map) ==
    {e \in 1..Len(map) : IndexOf(list, map[e][1]) # 0 /\ ~Handled(map[e][1])}

\* every target of entry e that is in the list is within the tolerance of the component
AllTargetsConnected(list, map, e) ==
    \A k \in 1..Len(map[e][2]) :
        IndexOf(list, map[e][2][k]) # 0 => PairConnected(list, map[e][1], map[e][2][k])

\* C21: the snapping step is a no-op on pairs that are already connected:
\* a component whose chosen anchor is at most the tolerance away from the
\* chosen anchor of each of its declared targets, exactly the tolerance
\* included, is left as it was, and so are its targets.
C21_ConnectedPairKept ==
    [][(pc = "snap" /\ pc' = "done") =>
          \A e \in SnappedEntries(components, connection_map) :
              AllTargetsConnected(components, connection_map, e) =>
                  /\ components'[IndexOf(components, connection_map[e][1])]
                        = components[IndexOf(components, connection_map[e][1])]
                  /\ \A k \in 1..Len(connection_map[e][2]) :
                        LET t == IndexOf(components, connection_map[e][2][k])
                        IN  (t # 0 /\ ~(\E f \in SnappedEntries(components, connection_map) :
                                           connection_map[f][1] = connection_map[e][2][k]))
                                => components'[t] = components[t]]_vars

\* the extent of a solid operation: half the height of a box, cylinder or
\* cone, the full radius of a sphere, times scale.z
ScaledExtent(c) ==
    IF Kind(c) = Sphere THEN Op0(c).params.radius * Op0(c).transform.scale[3]
    ELSE (Op0(c).params.height * Op0(c).transform.scale[3]) \div 2

\* C22: every box, cylinder, cone and sphere operation has three anchors:
\* top and bottom at location.z plus and minus the scaled extent, priority 1,
\* and center at the location, priority 0.
C22_ThreeAnchors ==
    \A i \in 1..Len(components) :
        (HasOp(components[i]) /\ Kind(components[i]) \in {Box, Cylinder, Cone, Sphere}) =>
            LET points == get_connection_point(components[i])
                location == Location(components[i])
                e == ScaledExtent(components[i])
            IN  /\ DOMAIN points = {"top", "bottom", "center"}
                /\ points["top"] = Anchor(<<location[1], location[2], Add(location[3], e)>>, 1)
                /\ points["bottom"] = Anchor(<<location[1], location[2], Sub(location[3], e)>>, 1)
                /\ points["center"] = Anchor(location, 0)

\* the lower-cased name holds one of leg, base, stand, foot, support, pedestal
NamedGroundContact(name) ==
    \E kw \in {"leg", "base", "stand", "foot", "support", "pedestal"} : HasLower(name, kw)

\* C23: the components the ground-contact pass treats as ground-contact are
\* exactly those whose lower-cased name contains leg, base, stand, foot,
\* support or pedestal.
C23_GroundContactKeywords ==
    [][pc = "ground" =>
          BaseIndices(components)
              = {i \in 1..Len(components) : NamedGroundContact(components[i].name)}]_vars

\* the targets of entry e the component is snapped to: they are in the list
\* and the component's anchor is not within the tolerance of theirs
SnappedTargets(list, map, e) ==
    {k \in 1..Len(map[e][2]) :
        /\ IndexOf(list, map[e][2][k]) # 0
        /\ ~PairConnected(list, map[e][1], map[e][2][k])}

LastOf(S) == CHOOSE k \in S : \A j \in S : j <= k

\* the z of the chosen anchors of the declared pair <<a, b>>
ChosenZs(list, a, b) ==
    LET chosen == ChosenPoints(a, get_connection_point(list[IndexOf(list, a)]),
                               get_connection_point(list[IndexOf(list, b)]))
    IN  <<chosen.comp_point[3], chosen.target_point[3]>>

\* C25: a component declared connected to several targets is snapped from
\* its current anchor each time: when the snapping step has moved a seat or
\* top component to more than one target, its chosen anchor z equals the
\* chosen anchor z of the last target it was snapped to.
C25_LastSnapWins ==
    [][(pc = "snap" /\ pc' = "done") =>
          \A e \in SnappedEntries(components, connection_map) :
              LET a == connection_map[e][1]
                  S == SnappedTargets(components, connection_map, e)
              IN  ((Has(a, "Seat") \/ Has(a, "Top")) /\ Cardinality(S) > 1) =>
                      LET zs == ChosenZs(components', a, connection_map[e][2][LastOf(S)])
                      IN  zs[1] = zs[2]]_vars

\* the (x, y) of the location of a component
LocationXY(c) == <<Location(c)[1], Location(c)[2]>>

\* the pairs of legs of the list that stand at different (x, y)
ApartLegs(list) ==
    {pr \in LegIndices(list) \X LegIndices(list) :
        /\ pr[1] < pr[2]
        /\ HasOp(list[pr[1]]) /\ HasOp(list[pr[2]])
        /\ LocationXY(list[pr[1]]) # LocationXY(list[pr[2]])}

\* C26: validation never makes two legs coincide: two legs with different
\* (x, y) locations in the list given still have different (x, y) locations
\* in the list returned, also for a chair whose legs stand more than 0.1
\* away from the centre of the seat.
C26_LegsStayApart ==
    Returned => \A pr \in ApartLegs(input) :
                    LocationXY(components[pr[1]]) # LocationXY(components[pr[2]])

\* C27: the two shape measurements agree: when the ground-contact pass has
\* run, for every box, cylinder and sphere of the list, whatever its scale,
\* the lowest z the pass measures is the z of the bottom anchor that
\* alignment and snapping use.
C27_MeasurementsAgree ==
    AfterGround =>
        \A i \in 1..Len(components) :
            (HasOp(components[i]) /\ Kind(components[i]) \in {Box, Cylinder, Sphere}) =>
                get_lowest_point(components[i]) = BottomZ(components[i])

\* the components the ground-contact pass treats as legs
LowerLegIndices(list) == {i \in 1..Len(list) : HasLower(list[i].name, "leg")}

\* C28: role detection is consistent across the passes: every component
\* the ground-contact pass treats as a leg is counted as a supporting leg by
\* the alignment pass, so that after the alignment of a list with a seat or
\* table top and at least one such leg the highest-leg height and the
\* location of the surface are finite.
C28_RolesConsistent ==
    (AfterAlignment /\ SurfaceIndex(components) # 0 /\ LowerLegIndices(components) # {}) =>
        /\ LowerLegIndices(components) \subseteq LegIndices(components)
        /\ IsFinite(highest_leg_z(components))
        /\ IsFinite(Location(components[SurfaceIndex(components)])[3])

\* a mapping from names to lists of names
IsNameMap(v) == IsDict(v) /\ \A e \in 1..Len(v) : v[e][1] \in STRING /\ v[e][2] \in Seq(STRING)

\* C29: retrieving the connection map always yields a usable map: on every
\* path the value _get_connection_map returned is a mapping from names to
\* lists of names, so that the loop over its items raises no fault.
C29_MapUsable ==
    pc # "map" => IsNameMap(connection_map)

(***************************************************************************)
(* Pattern checks of FurnitureGenerator: _check_symmetry and               *)
(* _check_radial_arrangement.  positions holds the values of the positions *)
(* map in its iteration order, one <<x, y, z>> per key.  Angles are in     *)
(* hundredths of a degree.                                                 *)
(***************************************************************************)
Abs(a) == IF a < 0 THEN 0 - a ELSE a

\* 0.1 scene units
MirrorTolerance == 20

\* "Check x-axis symmetry"
XMirrored(pos1, pos2) ==
    Abs(pos1[1] + pos2[1]) < MirrorTolerance /\ Abs(pos1[2] - pos2[2]) < MirrorTolerance

\* "Check y-axis symmetry"
YMirrored(pos1, pos2) ==
    Abs(pos1[2] + pos2[2]) < MirrorTolerance /\ Abs(pos1[1] - pos2[1]) < MirrorTolerance

\* as PairMirrored, but with the x-axis test alone
PairXMirrored(pos1, pos2) == XMirrored(pos1, pos2)

\* what the loop body of _check_symmetry tests for one pair
PairMirrored(pos1, pos2) == XMirrored(pos1, pos2) \/ YMirrored(pos1, pos2)

check_symmetry(pos) ==
    IF Len(pos) < 2 THEN FALSE
    ELSE \E i, j \in 1..Len(pos) : i # j /\ PairMirrored(pos[i], pos[j])

FullTurn == 36000

\* np.arctan2(y, x) of the points the model draws, in (-18000, 18000]
ArcTan2(y, x) ==
    CASE x = 200 /\ y = 0 -> 0
      [] x = 35 /\ y = 197 -> 7993
      [] x = 0 /\ y = 200 -> 9000
      [] x = -100 /\ y = 173 -> 12003
      [] x = -200 /\ y = 0 -> 18000
      [] x = -188 /\ y = -68 -> -16011
      [] x = -100 /\ y = -173 -> -12003
      [] x = 0 /\ y = -200 -> -9000
      [] x = -200 /\ y = -200 -> -13500
      [] x = -200 /\ y = 180 -> 13801
      [] x = -200 /\ y = 190 -> 13647
      [] x = -200 /\ y = 200 -> 13500
      [] x = 180 /\ y = -200 -> -4801
      [] x = 180 /\ y = 180 -> 4500
      [] x = 180 /\ y = 190 -> 4655
      [] x = 180 /\ y = 200 -> 4801
      [] x = 190 /\ y = -200 -> -4647
      [] x = 190 /\ y = 180 -> 4345
      [] x = 190 /\ y = 190 -> 4500
      [] x = 190 /\ y = 200 -> 4647
      [] x = 200 /\ y = -200 -> -4500
      [] x = 200 /\ y = 180 -> 4199
      [] x = 200 /\ y = 190 -> 4353
      [] x = 200 /\ y = 200 -> 4500
      [] x = 600 /\ y = 0 -> 0
      [] x = 400 /\ y = 200 -> 2657
      [] x = 400 /\ y = -200 -> -2657
      [] x = 300 /\ y = 173 -> 2997
      [] x = 300 /\ y = -173 -> -2997

\* 0.1 radian is 5.72958 degrees: RadialToleranceNum / RadialToleranceDen
\* hundredths of a degree
RadialToleranceNum == 572958
RadialToleranceDen == 1000

center == <<0, 0, 0>>

Angles(pos) == [i \in 1..Len(pos) |-> ArcTan2(pos[i][2] - center[2], pos[i][1] - center[1])]

\* as AngleDiffs, but without the gap that wraps around the full turn
AngleDiffsNoWrap(angles) == [i \in 1..(Len(angles) - 1) |-> angles[i + 1] - angles[i]]

\* the consecutive differences of the sorted angles, then the wrapping gap
AngleDiffs(angles) ==
    [i \in 1..(Len(angles) - 1) |-> angles[i + 1] - angles[i]]
        \o <<FullTurn - (angles[Len(angles)] - angles[1])>>

RECURSIVE SeqSum(_)
SeqSum(s) == IF s = <<>> THEN 0 ELSE s[1] + SeqSum(Tail(s))

\* all(abs(diff - mean_diff) < 0.1 for diff in angle_diffs), mean_diff = sum / len
RoughlyEqual(diffs) ==
    \A i \in 1..Len(diffs) :
        Abs(Len(diffs) * diffs[i] - SeqSum(diffs)) * RadialToleranceDen
            < Len(diffs) * RadialToleranceNum

check_radial_arrangement(pos) ==
    IF Len(pos) < 3 THEN FALSE
    ELSE RoughlyEqual(AngleDiffs(SortSeq(Angles(pos), LAMBDA a, b : a < b)))

\* inputs: up to MaxMirror points around the mirror axes, or up to MaxRing
\* points on the circle of radius 1 about the origin
MaxMirror == 2
MaxRing == 4

MirrorCoords == {-200, 180, 190, 200}
MirrorPoints == {<<x, y, 0>> : x \in MirrorCoords, y \in MirrorCoords}

\* at 0, 80, 90, 120, 180, 200, 240 and 270 degrees
RingPoints == {<<200, 0, 0>>, <<35, 197, 0>>, <<0, 200, 0>>, <<-100, 173, 0>>, <<-200, 0, 0>>, <<-188, -68, 0>>, <<-100, -173, 0>>, <<0, -200, 0>>}

\* the same assembly standing elsewhere in the scene
RingOffset == <<400, 0, 0>>

Translate(pos, d) == [i \in 1..Len(pos) |-> <<pos[i][1] + d[1], pos[i][2] + d[2], pos[i][3] + d[3]>>]

\* the points at 0, 90, 120, 180, 240 and 270 degrees, moved by RingOffset
ShiftedRingPoints ==
    {<<600, 0, 0>>, <<400, 200, 0>>, <<300, 173, 0>>, <<200, 0, 0>>, <<300, -173, 0>>, <<400, -200, 0>>}

PositionLists ==
    UNION {[1..n -> MirrorPoints] : n \in 1..MaxMirror}
    \cup UNION {[1..n -> RingPoints] : n \in 1..MaxRing}
    \cup UNION {[1..n -> ShiftedRingPoints] : n \in 3..MaxRing}

PatternInit ==
    /\ positions \in PositionLists
    /\ result = NoResult
    /\ pc = "pattern"
    /\ components = <<>>
    /\ input = <<>>
    /\ connection_map = <<>>
    /\ generator = "FurnitureGenerator"
    /\ classification = ""
    /\ calls = <<>>

CheckSymmetry ==
    /\ pc = "pattern"
    /\ result' = [check |-> "symmetry", value |-> check_symmetry(positions)]
    /\ pc' = "checked"
    /\ UNCHANGED <<positions, components, input, connection_map, pipeline>>

\* as CheckRadialArrangement, but sorting the positions themselves by angle
\* where the code sorts its own list of angles
CheckRadialArrangementSorting ==
    /\ pc = "pattern"
    /\ result' = [check |-> "radial", value |-> check_radial_arrangement(positions)]
    /\ positions' = SortSeq(positions, LAMBDA a, b : ArcTan2(a[2], a[1]) < ArcTan2(b[2], b[1]))
    /\ pc' = "checked"
    /\ UNCHANGED <<components, input, connection_map, pipeline>>

CheckRadialArrangement ==
    /\ pc = "pattern"
    /\ result' = [check |-> "radial", value |-> check_radial_arrangement(positions)]
    /\ pc' = "checked"
    /\ UNCHANGED <<positions, components, input, connection_map, pipeline>>

PatternNext == CheckSymmetry \/ CheckRadialArrangement

PatternSpec == PatternInit /\ [][PatternNext]_vars

(***************************************************************************)
(* Properties of the pattern checks.                                       *)
(***************************************************************************)
SymmetryChecked == pc = "checked" /\ result.check = "symmetry"
RadialChecked == pc = "checked" /\ result.check = "radial"

\* the (x, y) of p reflected across the x-mirror (x -> -x) and the y-mirror (y -> -y)
MirrorX(p) == <<0 - p[1], p[2]>>
MirrorY(p) == <<p[1], 0 - p[2]>>

\* two (x, y) match within the tolerance
Close(a, b) == Abs(a[1] - b[1]) < MirrorTolerance /\ Abs(a[2] - b[2]) < MirrorTolerance

\* C8 as claimed: for two components the check is true exactly when one's
\* (x, y) reflected across the candidate axis, the x-mirror, matches the
\* other's within tolerance: (1,1,0) and (-1,1,0) are reported symmetric,
\* (1,1,0) and (1,-1,0) are reported not symmetric.
C8_MirrorAgainstAxis ==
    (SymmetryChecked /\ Len(positions) = 2) =>
        /\ result.value <=> Close(MirrorX(positions[1]), positions[2])
        /\ positions = << <<200, 200, 0>>, <<-200, 200, 0>> >> => result.value
        /\ positions = << <<200, 200, 0>>, <<200, -200, 0>> >> => ~result.value

\* C8 as amended: the check is true exactly when, for some two of the
\* components, one's (x, y) reflected across the x-mirror or across the
\* y-mirror matches the other's within tolerance.  (1,1,0) and (-1,1,0) are
\* reported symmetric; (1,1,0) and (1,-1,0) do not match across the x-mirror
\* and are reported symmetric all the same, as they match across the y-mirror.
C8_MirrorEitherAxis ==
    SymmetryChecked =>
        /\ result.value <=>
              \E i, j \in 1..Len(positions) :
                  /\ i # j
                  /\ \/ Close(MirrorX(positions[i]), positions[j])
                     \/ Close(MirrorY(positions[i]), positions[j])
        /\ positions = << <<200, 200, 0>>, <<-200, 200, 0>> >> => result.value
        /\ positions = << <<200, 200, 0>>, <<200, -200, 0>> >> =>
              result.value /\ ~Close(MirrorX(positions[1]), positions[2])

\* the check has run on (1,1,0) and (1,-1,0) and reported them symmetric
C8_Witness ==
    /\ SymmetryChecked
    /\ positions = << <<200, 200, 0>>, <<200, -200, 0>> >>
    /\ result.value

\* the angles of the components as directions in [0, FullTurn), in increasing order
Directions(pos) == SortSeq([i \in 1..Len(pos) |-> Angles(pos)[i] % FullTurn], LAMBDA a, b : a < b)

\* the gap from the k-th direction to the next one around the circle
Gap(dirs, k) ==
    IF k < Len(dirs) THEN dirs[k + 1] - dirs[k] ELSE dirs[1] + FullTurn - dirs[k]

\* C9: for three or more components the radial check passes exactly when
\* every gap between neighbouring directions, the last one wrapping around
\* the full turn, is within tolerance of full turn / N.  Four components at
\* 0, 90, 180 and 270 degrees pass; three at 0, 80 and 200 degrees fail.
C9_EvenlySpaced ==
    (RadialChecked /\ Len(positions) >= 3) =>
        LET dirs == Directions(positions)
            N == Len(positions)
        IN  /\ result.value <=>
                  \A k \in 1..N :
                      Abs(N * Gap(dirs, k) - FullTurn) * RadialToleranceDen < N * RadialToleranceNum
            /\ positions = << <<200, 0, 0>>, <<0, 200, 0>>, <<-200, 0, 0>>, <<0, -200, 0>> >>
                  => result.value
            /\ positions = << <<200, 0, 0>>, <<35, 197, 0>>, <<-188, -68, 0>> >> => ~result.value

\* the check has passed four components a quarter turn apart, given out of order
C9_Witness ==
    /\ RadialChecked
    /\ positions = << <<0, -200, 0>>, <<200, 0, 0>>, <<-200, 0, 0>>, <<0, 200, 0>> >>
    /\ result.value

\* C16: a pattern check only reports a boolean: the step that runs it leaves
\* every position of the positions map as it was, whether it reports TRUE
\* or FALSE.
C16_PositionsKept ==
    [][pc = "pattern" => (pc' = "checked" /\ positions' = positions)]_vars

\* a failed radial check on three or more positions that are not in angular order
C16_Witness ==
    /\ RadialChecked
    /\ ~result.value
    /\ Len(positions) >= 3
    /\ \E i \in 1..(Len(positions) - 1) : Angles(positions)[i] > Angles(positions)[i + 1]

\* C24: the radial check measures angles about the centre of the checked
\* components, so moving all of them by the same (x, y) offset does not
\* change its result: on positions moved by RingOffset it reports what it
\* reports on the positions about the origin.
C24_TranslationInvariant ==
    (RadialChecked /\ \A i \in 1..Len(positions) : positions[i] \in ShiftedRingPoints) =>
        result.value = check_radial_arrangement(
                           Translate(positions, <<0 - RingOffset[1], 0 - RingOffset[2], 0>>))

(***************************************************************************)
(* The generation pipelines DecomposedPrimitiveGenerator.generate and      *)
(* DirectPrimitiveGenerator.generate: classify the prompt, generate the    *)
(* primitive specifications, assign materials (decomposed only), save the  *)
(* JSON file and export it through Blender.  calls records every agent     *)
(* the pipeline has called, with the list handed to it.                    *)
(***************************************************************************)
Decomposed == "DecomposedPrimitiveGenerator"
Direct == "DirectPrimitiveGenerator"

Call(fn, arg) == [fn |-> fn, arg |-> arg]

\* result["classification"] as the classifier's language model may word it
ClassifierAnswers == {"pass", "does not pass", "not a furniture", " Not a Furniture"}

\* FurnitureClassifier.classify: the model's answer, "does not pass" on any error
classify(answer, failed) == IF failed THEN "does not pass" ELSE answer

\* classification.lower().strip()
LowerStrip(s) ==
    CASE s = " Not a Furniture" -> "not a furniture"
      [] OTHER                  -> s

\* the test on which generate returns (None, None) right after classifying
Rejected(gen, c) ==
    IF gen = Direct THEN LowerStrip(c) = "not a furniture"
    ELSE c = "not a furniture"

\* the specifications generate_primitives may come back with: lists of at
\* most MaxSpecs components
MaxSpecs == 2

SpecNameLists ==
    {s \in UNION {[1..n -> 1..2] : n \in 0..MaxSpecs} :
        \A i \in 1..(Len(s) - 1) : s[i] < s[i + 1]}

GeneratedSpecs == UNION {ListsNamed(s, 1) : s \in SpecNameLists}

DefaultMaterial == "wood"
AssignedMaterial == "metal"

WithMaterial(c, m) == [name |-> c.name, operations |-> c.operations, material |-> m]

\* what comes back from the language model of the materials agent: the
\* call fails, the content is no JSON, it is JSON but no list, or it is a
\* list of assignments naming the components of assigned
MaterialAnswers(list) ==
    {[kind |-> k, assigned |-> {}] : k \in {"failed", "not_json", "not_list"}}
    \cup {[kind |-> "list", assigned |-> a] : a \in SUBSET {list[i].name : i \in 1..Len(list)}}

\* MaterialsAgent.assign_materials: the components named in the model's
\* material map get its material, every other one the default; a JSON
\* answer that is no list returns the components as they came
assign_materials(list, answer) ==
    IF answer.kind = "not_list" THEN list
    ELSE [i \in 1..Len(list) |->
            WithMaterial(list[i], IF answer.kind = "list" /\ list[i].name \in answer.assigned
                                  THEN AssignedMaterial
                                  ELSE DefaultMaterial)]

GateInit ==
    /\ generator \in {Decomposed, Direct}
    /\ pc = "classify"
    /\ classification = ""
    /\ calls = <<>>
    /\ components = <<>>
    /\ input = <<>>
    /\ connection_map = <<>>
    /\ positions = <<>>
    /\ result = NoResult

\* Step 1: classification and the rejection test
Classify ==
    /\ pc = "classify"
    /\ \E answer \in ClassifierAnswers, failed \in BOOLEAN :
          classification' = classify(answer, failed)
    /\ calls' = Append(calls, Call("classify", <<>>))
    /\ pc' = IF Rejected(generator, classification') THEN "stopped" ELSE "primitives"
    /\ UNCHANGED <<components, input, connection_map, positions, result, generator>>

\* Step 2: generate_primitives; the direct generator lets its errors out,
\* the decomposed one answers them with [] and stops on an empty list
GeneratePrimitives ==
    /\ pc = "primitives"
    /\ calls' = Append(calls, Call("generate_primitives", <<>>))
    /\ \E specs \in GeneratedSpecs, failed \in BOOLEAN :
          IF failed
          THEN /\ components' = <<>>
               /\ pc' = IF generator = Direct THEN "raised" ELSE "stopped"
          ELSE /\ components' = specs
               /\ pc' = IF generator = Direct THEN "save"
                        ELSE IF specs = <<>> THEN "stopped" ELSE "materials"
    /\ UNCHANGED <<input, connection_map, positions, result, generator, classification>>

\* Step 3 of the decomposed generator: assign_materials
AssignMaterials ==
    /\ pc = "materials"
    /\ calls' = Append(calls, Call("assign_materials", components))
    /\ \E answer \in MaterialAnswers(components) :
          components' = assign_materials(components, answer)
    /\ pc' = IF components' = <<>> THEN "stopped" ELSE "save"
    /\ UNCHANGED <<input, connection_map, positions, result, generator, classification>>

\* writing the JSON file
SaveJson ==
    /\ pc = "save"
    /\ calls' = Append(calls, Call("save_json", components))
    /\ \E written \in BOOLEAN :
          pc' = IF written THEN "export"
                ELSE IF generator = Direct THEN "raised" ELSE "stopped"
    /\ UNCHANGED <<components, input, connection_map, positions, result, generator,
                   classification>>

\* launching Blender on the JSON file and returning the two paths
Export ==
    /\ pc = "export"
    /\ calls' = Append(calls, Call("generate_blend_file", components))
    /\ \E blend \in BOOLEAN : result' = [check |-> "generate", value |-> blend]
    /\ pc' = "returned"
    /\ UNCHANGED <<components, input, connection_map, positions, generator, classification>>

GateNext ==
    \/ Classify
    \/ GeneratePrimitives
    \/ AssignMaterials
    \/ SaveJson
    \/ Export

GateSpec == GateInit /\ [][GateNext]_vars

\* the agents the pipeline has called
Called == {calls[i].fn : i \in 1..Len(calls)}

\* C12: whenever the classifier has answered "does not pass" (its answer for
\* a prompt it does not accept and for a classification error), the pipeline
\* calls neither primitive generation nor material assignment nor the export.
C12_ClassifierGates ==
    classification = "does not pass" => Called \subseteq {"classify"}

\* C30: assign_materials returns the same components in the same order,
\* names and operations untouched, and on every path (the call fails, the
\* answer is no JSON, it is JSON but no list, a component is missing from
\* the assignments) every component returned carries a material.
C30_MaterialOnEveryPath ==
    [][pc = "materials" =>
          /\ Len(components') = Len(components)
          /\ \A i \in 1..Len(components) :
                /\ components'[i].name = components[i].name
                /\ components'[i].operations = components[i].operations
                /\ "material" \in DOMAIN components'[i]]_vars

(***************************************************************************)
(* PrimitiveGenerator.generate: parse the model's answer, validate the     *)
(* components, write the validated list to the debug file and assign       *)
(* materials to it.  validate_and_fix is the composition of the passes     *)
(* above, run to its return.                                               *)
(***************************************************************************)
validate_and_fix(list, map) ==
    IF GroundRaises(list) THEN Raise(list)
    ELSE LET adjusted == adjust_legs(ensure_ground_contact(list))
         IN  IF adjusted.raised THEN adjusted
             ELSE LET aligned == snap_surface(adjusted.list)
                  IN  IF aligned.raised THEN aligned
                      ELSE snap_connections(aligned.list, map)

GenerateInit ==
    /\ generator = "PrimitiveGenerator"
    /\ pc = "parse"
    /\ classification = ""
    /\ calls = <<>>
    /\ components = <<>>
    /\ input = <<>>
    /\ connection_map = <<>>
    /\ positions = <<>>
    /\ result = NoResult

\* what generate returns: the list and whether it is non-empty
Return(list) ==
    /\ components' = list
    /\ result' = [check |-> "generate", value |-> list # <<>>]
    /\ pc' = "returned"

\* json.loads of the answer and the checks on parsed["components"]
ParseResponse ==
    /\ pc = "parse"
    /\ \E components_list \in GeneratedSpecs, parsed \in BOOLEAN :
          IF parsed
          THEN /\ input' = components_list
               /\ components' = components_list
               /\ pc' = "validate"
               /\ UNCHANGED result
          ELSE /\ Return(<<>>)
               /\ UNCHANGED input
    /\ UNCHANGED <<connection_map, positions, pipeline>>

\* validated_components = self.validator.validate_and_fix(components_list);
\* an exception ends generate with [], an empty list with components_list
Validate ==
    /\ pc = "validate"
    /\ calls' = Append(calls, Call("validate_and_fix", components))
    /\ \E map \in LLMMaps \cup {get_default_connections(components)} :
          /\ connection_map' = map
          /\ LET validated == validate_and_fix(components, map)
             IN  IF validated.raised THEN Return(<<>>)
                 ELSE IF validated.list = <<>> THEN Return(components)
                 ELSE /\ components' = validated.list
                      /\ pc' = "debug_file"
                      /\ UNCHANGED result
    /\ UNCHANGED <<input, positions, generator, classification>>

\* latest_validated_components.json; failing to write it ends generate with []
WriteDebugFile ==
    /\ pc = "debug_file"
    /\ \E written \in BOOLEAN :
          IF written
          THEN pc' = "materials" /\ UNCHANGED <<components, result>>
          ELSE Return(<<>>)
    /\ UNCHANGED <<input, connection_map, positions, pipeline>>

\* as AssignValidatedMaterials, but handing the materials agent the list as parsed
AssignParsedMaterials ==
    /\ pc = "materials"
    /\ calls' = Append(calls, Call("assign_materials", input))
    /\ \E answer \in MaterialAnswers(input) :
          Return(assign_materials(input, answer))
    /\ UNCHANGED <<input, connection_map, positions, generator, classification>>

\* components_with_materials = self.materials_agent.assign_materials(validated_components)
AssignValidatedMaterials ==
    /\ pc = "materials"
    /\ calls' = Append(calls, Call("assign_materials", components))
    /\ \E answer \in MaterialAnswers(components) :
          Return(assign_materials(components, answer))
    /\ UNCHANGED <<input, connection_map, positions, generator, classification>>

GenerateNext ==
    \/ ParseResponse
    \/ Validate
    \/ WriteDebugFile
    \/ AssignValidatedMaterials

GenerateSpec == GenerateInit /\ [][GenerateNext]_vars

\* C17: the materials agent is called only after validate_and_fix has been
\* called on the parsed list and has returned, and the list it is handed is
\* the list validate_and_fix returned.
C17_MaterialsOnValidated ==
    \A i \in 1..Len(calls) :
        calls[i].fn = "assign_materials" =>
            /\ \E j \in 1..(i - 1) : calls[j] = Call("validate_and_fix", input)
            /\ ~validate_and_fix(input, connection_map).raised
            /\ calls[i].arg = validate_and_fix(input, connection_map).list

\* materials were assigned to a list that validation had changed
C17_Witness ==
    /\ pc = "returned"
    /\ Len(calls) = 2
    /\ calls[2].fn = "assign_materials"
    /\ calls[2].arg # input
    /\ Len(components) = 2

====
